---- MODULE Spec2Model ----
(***************************************************************************)
(* Model of cupyx/scipy/ndimage/_util.py: the parameter checks             *)
(* (_check_origin, _check_mode, _check_axes), the index-width selector     *)
(* (_get_inttype), and the C code emitted by                               *)
(* _generate_boundary_condition_ops and _generate_indices_ops, evaluated   *)
(* with C integer semantics (division and remainder truncate toward 0).    *)
(*                                                                         *)
(* The module is stateless: every function is a pure function of its       *)
(* arguments.  The state machine records the last call (call) and what it  *)
(* produced (ret); each action is one call with arguments drawn from       *)
(* bounded sets.  Source names lose their leading underscore.              *)
(***************************************************************************)
EXTENDS Integers, Sequences, FiniteSets

VARIABLES call, ret

vars == <<call, ret>>

----------------------------------------------------------------------------
(* Bounds of the explored inputs.                                          *)

\* raw coordinates ix range over -MaxIx .. MaxIx
MaxIx == 13
\* axis sizes xsize range over 1 .. MaxXsize
MaxXsize == 5
\* window widths range over 1 .. MaxWidth, origins over -MaxOrigin .. MaxOrigin
MaxWidth == 6
MaxOrigin == 4
\* _check_axes: ndim in 1 .. MaxNdim, axis numbers in -MaxAxis .. MaxAxis,
\* iterables of at most MaxAxesLen entries
MaxNdim == 3
MaxAxis == 4
MaxAxesLen == 2
\* _get_inttype: arrays of 1 .. MaxArrayNdim axes
MaxArrayNdim == 2
\* _generate_indices_ops: ndim in 1 .. MaxWinNdim, extents in 1 .. MaxYsize,
\* flattened index in 0 .. MaxFlat
MaxWinNdim == 3
MaxYsize == 3
MaxFlat == 12

----------------------------------------------------------------------------
(* Arithmetic of the two languages involved.                               *)

Abs(a) == IF a < 0 THEN -a ELSE a

Min(a, b) == IF a < b THEN a ELSE b

Max(a, b) == IF a > b THEN a ELSE b

\* C integer division: the quotient is truncated toward zero (b /= 0).
CDiv(a, b) ==
    LET q == Abs(a) \div Abs(b)
    IN  IF (a < 0) /= (b < 0) THEN -q ELSE q

\* C remainder: a == (a / b) * b + a % b, so it has the sign of a.
CRem(a, b) == a - b * CDiv(a, b)

\* Python floor division and modulo for a positive divisor.
PyFloorDiv(a, b) == a \div b

PyMod(a, b) == a % b

----------------------------------------------------------------------------
(* Results of a call.                                                      *)

Returned(v) == [status |-> "ok", val |-> v]

Raised(e) == [status |-> "raise", error |-> e]

\* The emitted C code executed an operation whose behaviour C leaves undefined
\* and the execution faulted instead of producing a value.
Faulted == [status |-> "undefined"]

----------------------------------------------------------------------------
(* _generate_boundary_condition_ops: the emitted rule of each mode, as the *)
(* value the variable ix holds after the emitted statements have run.      *)

\* Outcomes of an integer division by zero in the emitted code: the execution
\* faults, or it goes on with some quotient q.
UndefinedQuotients == {-1, 0, 1}

UndefinedOutcomes == [fault : BOOLEAN, q : UndefinedQuotients]

\* Mutant of ReflectOps: a negative coordinate is negated (-ix, the mirror
\* rule's reflection) instead of reflected about the edge (-1 - ix).
ReflectOps_NegateOnly(ix, xsize) ==
    LET neg == IF ix < 0 THEN -ix ELSE ix
        per == CRem(neg, xsize * 2)
    IN  Min(per, 2 * xsize - 1 - per)

\* mode in ['reflect', 'grid-mirror']
ReflectOps(ix, xsize) ==
    LET neg == IF ix < 0 THEN -1 - ix ELSE ix
        per == CRem(neg, xsize * 2)
    IN  Min(per, 2 * xsize - 1 - per)

\* Mutant of MirrorOps: the upper half is folded with the reflect rule's
\* 2 * xsize - 1 - ix.
MirrorOps_ReflectFold(ix, xsize) ==
    IF xsize = 1
    THEN 0
    ELSE LET neg == IF ix < 0 THEN -ix ELSE ix
             per == 1 + CRem(neg - 1, (xsize - 1) * 2)
         IN  Min(per, 2 * xsize - 1 - per)

\* mode == 'mirror'
MirrorOps(ix, xsize) ==
    IF xsize = 1
    THEN 0
    ELSE LET neg == IF ix < 0 THEN -ix ELSE ix
             per == 1 + CRem(neg - 1, (xsize - 1) * 2)
         IN  Min(per, 2 * xsize - 2 - per)

\* mode == 'nearest'
NearestOps(ix, xsize) == Min(Max(ix, 0), xsize - 1)

\* while (ix < 0) { ix += xsize; }
RECURSIVE WhileNegativeAdd(_, _)
WhileNegativeAdd(ix, xsize) ==
    IF ix < 0 THEN WhileNegativeAdd(ix + xsize, xsize) ELSE ix

\* mode == 'grid-wrap'
GridWrapOps(ix, xsize) == WhileNegativeAdd(CRem(ix, xsize), xsize)

\* The emitted 'wrap' rule divides by sz - 1 on both of its branches.
WrapDividesByZero(ix, sz) == (ix < 0 \/ ix > sz - 1) /\ sz - 1 = 0

\* a / b in the emitted 'wrap' rule; q is the quotient when b is 0.
WrapQuotient(a, b, q) == IF b = 0 THEN q ELSE CDiv(a, b)

\* Mutant of WrapOps: the negative branch adds one period too few.
WrapOps_NoExtraPeriod(ix, sz, q) ==
    IF ix < 0
    THEN ix + (sz - 1) * WrapQuotient(-ix, sz - 1, q)
    ELSE IF ix > sz - 1
         THEN ix - (sz - 1) * WrapQuotient(ix, sz - 1, q)
         ELSE ix

\* mode == 'wrap'
WrapOps(ix, sz, q) ==
    IF ix < 0
    THEN ix + (sz - 1) * (WrapQuotient(-ix, sz - 1, q) + 1)
    ELSE IF ix > sz - 1
         THEN ix - (sz - 1) * WrapQuotient(ix, sz - 1, q)
         ELSE ix

\* Mutant of ConstantOps: the lower test is ix <= 0.
ConstantOps_ZeroOutside(ix, xsize) == IF ix <= 0 \/ ix >= xsize THEN -1 ELSE ix

\* mode in ['constant', 'grid-constant']
ConstantOps(ix, xsize) == IF ix < 0 \/ ix >= xsize THEN -1 ELSE ix

\* The if/elif chain on mode.  A mode matched by no branch leaves `ops`
\* unbound, and `return ops` raises UnboundLocalError.  The coordinate is an
\* integer (float_ix=False, so min_func and max_func are min and max); int_t
\* only names the type of the casts in the 'nearest' and 'wrap' rules, which
\* leave a coordinate within the index width as it is.
generate_boundary_condition_ops(mode, ix, xsize, ub) ==
    IF mode \in {"reflect", "grid-mirror"} THEN Returned(ReflectOps(ix, xsize))
    ELSE IF mode = "mirror" THEN Returned(MirrorOps(ix, xsize))
    ELSE IF mode = "nearest" THEN Returned(NearestOps(ix, xsize))
    ELSE IF mode = "grid-wrap" THEN Returned(GridWrapOps(ix, xsize))
    ELSE IF mode = "wrap"
         THEN IF WrapDividesByZero(ix, xsize) /\ ub.fault
              THEN Faulted
              ELSE Returned(WrapOps(ix, xsize, ub.q))
    ELSE IF mode \in {"constant", "grid-constant"}
         THEN Returned(ConstantOps(ix, xsize))
    ELSE Raised("UnboundLocalError")

----------------------------------------------------------------------------
(* _check_mode                                                             *)

\* The tuple _check_mode tests membership in.
CheckModeTags ==
    {"reflect", "constant", "nearest", "mirror", "wrap",
     "grid-mirror", "grid-wrap", "grid-reflect"}

check_mode(mode) ==
    IF mode \notin CheckModeTags
    THEN Raised("RuntimeError")
    ELSE Returned(mode)

\* Mode tags a caller may pass: every tag either function names, and two
\* tags neither of them knows.
ModeTags == CheckModeTags \cup {"grid-constant", "bogus", ""}

----------------------------------------------------------------------------
(* _check_origin                                                           *)

\* Mutant of check_origin: the upper test is > width.
check_origin_UpperInclusive(origin, width) ==
    IF (PyFloorDiv(width, 2) + origin < 0)
       \/ (PyFloorDiv(width, 2) + origin > width)
    THEN Raised("ValueError")
    ELSE Returned(origin)

\* origin is an integer here, so int(origin) is origin.
check_origin(origin, width) ==
    IF (PyFloorDiv(width, 2) + origin < 0)
       \/ (PyFloorDiv(width, 2) + origin >= width)
    THEN Raised("ValueError")
    ELSE Returned(origin)

----------------------------------------------------------------------------
(* _check_axes.  The axes argument is None, a scalar integer, a sequence   *)
(* (list or tuple, which can be iterated again) or a one-shot iterator     *)
(* (which yields each of its items once).                                  *)

AxisOutOfRange(ax, ndim) == ax < -ndim \/ ax > ndim - 1

\* tuple(ax % ndim if ax < 0 else ax for ax in axes)
NormalizeAxes(axes, ndim) ==
    [i \in 1 .. Len(axes) |->
        IF axes[i] < 0 THEN PyMod(axes[i], ndim) ELSE axes[i]]

\* tuple(range(ndim))
RangeTuple(ndim) == [i \in 1 .. ndim |-> i - 1]

\* The elif branch for an Iterable.  Over a sequence the for loop visits
\* every item and tests it, and axes is rebound to the tuple of all items.
\* Over a one-shot iterator the for loop takes the first item, the generator
\* expression in the body drains the rest into axes, the first item is
\* tested, and the loop ends because the iterator is exhausted.
IterableBranch(axes, ndim) ==
    IF axes.kind = "sequence"
    THEN IF \E i \in 1 .. Len(axes.val) : AxisOutOfRange(axes.val[i], ndim)
         THEN Raised("AxisError")
         ELSE Returned(NormalizeAxes(axes.val, ndim))
    ELSE IF Len(axes.val) = 0
         THEN Returned(<<>>)
         ELSE IF AxisOutOfRange(Head(axes.val), ndim)
              THEN Raised("AxisError")
              ELSE Returned(NormalizeAxes(Tail(axes.val), ndim))

\* if len(tuple(set(axes))) != len(axes): raise ValueError
UniqueOrRaise(axes) ==
    IF Cardinality({axes[i] : i \in 1 .. Len(axes)}) # Len(axes)
    THEN Raised("ValueError")
    ELSE Returned(axes)

check_axes(axes, ndim) ==
    IF axes.kind = "None"
    THEN Returned(RangeTuple(ndim))
    ELSE IF axes.kind = "scalar"
         THEN UniqueOrRaise(<<axes.val>>)
         ELSE LET branch == IterableBranch(axes, ndim)
              IN  IF branch.status = "raise"
                  THEN branch
                  ELSE UniqueOrRaise(branch.val)

----------------------------------------------------------------------------
(* _get_inttype.  Byte counts pass 2^31, so they are kept as two limbs,    *)
(* value = hi * 2^16 + lo with 0 <= lo < 2^16 (hi carries the sign).       *)

Limb == 2 ^ 16

Big(n) == [hi |-> n \div Limb, lo |-> n % Limb]

BigAdd(a, b) ==
    [hi |-> a.hi + b.hi + (a.lo + b.lo) \div Limb, lo |-> (a.lo + b.lo) % Limb]

\* n * m for -1 <= n < 2^31 and 0 <= m <= 2^15
BigMul(n, m) ==
    LET N == Big(n)
    IN  [hi |-> N.hi * m + (N.lo * m) \div Limb, lo |-> (N.lo * m) % Limb]

BigLess(a, b) == a.hi < b.hi \/ (a.hi = b.hi /\ a.lo < b.lo)

\* 1 << 31
OneShl31 == [hi |-> 2 ^ 15, lo |-> 0]

\* sum((x-1)*abs(stride) for x, stride in zip(shape, strides)), first k axes
RECURSIVE SumSpan(_, _, _)
SumSpan(shape, strides, k) ==
    IF k = 0
    THEN Big(0)
    ELSE BigAdd(SumSpan(shape, strides, k - 1),
                BigMul(shape[k] - 1, Abs(strides[k])))

nbytes(input) ==
    BigAdd(SumSpan(input.shape, input.strides, Len(input.shape)),
           Big(input.itemsize))

\* Mutant of get_inttype: the test is nbytes <= (1 << 31).
get_inttype_AtMost(input) ==
    IF BigLess(nbytes(input), OneShl31) \/ nbytes(input) = OneShl31
    THEN Returned("int")
    ELSE Returned("ptrdiff_t")

get_inttype(input) ==
    IF BigLess(nbytes(input), OneShl31)
    THEN Returned("int")
    ELSE Returned("ptrdiff_t")

----------------------------------------------------------------------------
(* _generate_indices_ops: the values ind_0 .. ind_{ndim-1} the emitted     *)
(* code computes from the flattened index i and the extents ysize_j.       *)

\* The emitted statements for j = ndim-1 down to 1, then the one for axis 0.
RECURSIVE IndicesBody(_, _, _, _, _)
IndicesBody(j, i_, ind, ysize, offsets) ==
    IF j >= 1
    THEN IndicesBody(j - 1, CDiv(i_, ysize[j]),
                     [ind EXCEPT ![j] = CRem(i_, ysize[j]) - offsets[j]],
                     ysize, offsets)
    ELSE [ind EXCEPT ![0] = i_ - offsets[0]]

\* Mutant of IndicesBody: axis 0 is reduced modulo its extent like the others.
RECURSIVE IndicesBody_Axis0Modulo(_, _, _, _, _)
IndicesBody_Axis0Modulo(j, i_, ind, ysize, offsets) ==
    IF j >= 1
    THEN IndicesBody_Axis0Modulo(j - 1, CDiv(i_, ysize[j]),
                     [ind EXCEPT ![j] = CRem(i_, ysize[j]) - offsets[j]],
                     ysize, offsets)
    ELSE [ind EXCEPT ![0] = CRem(i_, ysize[0]) - offsets[0]]

\* Mutant of generate_indices_ops.
generate_indices_ops_Axis0Modulo(ndim, offsets, ysize, i) ==
    Returned(IndicesBody_Axis0Modulo(ndim - 1, i,
                                     [j \in 0 .. ndim - 1 |-> 0],
                                     ysize, offsets))

generate_indices_ops(ndim, offsets, ysize, i) ==
    Returned(IndicesBody(ndim - 1, i, [j \in 0 .. ndim - 1 |-> 0],
                         ysize, offsets))

----------------------------------------------------------------------------
(* The state machine: one call of one function per behaviour.  Init draws  *)
(* the call and its arguments; the action of the called function runs it   *)
(* to completion and stores what it returned or raised.                    *)

Pending == [status |-> "pending"]

BoundaryCalls ==
    [op : {"generate_boundary_condition_ops"}, mode : ModeTags,
     ix : -MaxIx .. MaxIx, xsize : 1 .. MaxXsize]

CheckModeCalls == [op : {"check_mode"}, mode : ModeTags]

CheckOriginCalls ==
    [op : {"check_origin"}, origin : -MaxOrigin .. MaxOrigin,
     width : 1 .. MaxWidth]

AxisTuples ==
    UNION {[1 .. n -> -MaxAxis .. MaxAxis] : n \in 0 .. MaxAxesLen}

AxesArguments ==
    {[kind |-> "None"]}
    \cup [kind : {"scalar"}, val : -MaxAxis .. MaxAxis]
    \cup [kind : {"sequence", "iterator"}, val : AxisTuples]

CheckAxesCalls == [op : {"check_axes"}, axes : AxesArguments, ndim : 1 .. MaxNdim]

\* Extents, byte strides and element sizes of the arrays explored; their
\* spans stay below 2^47, the range of the two-limb arithmetic.
Extents == {1, 2, 10, 2 ^ 12, 2 ^ 20, 2 ^ 30}

Strides == {-8, 1, 2, 4, 40, 2 ^ 15}

ItemSizes == {1, 2, 4, 8}

Arrays ==
    UNION {[shape : [1 .. n -> Extents], strides : [1 .. n -> Strides],
            itemsize : ItemSizes] : n \in 1 .. MaxArrayNdim}

GetInttypeCalls == [op : {"get_inttype"}, input : Arrays]

\* Window-centre offsets explored.
Offsets == {0, 1}

IndicesCalls ==
    UNION {[op : {"generate_indices_ops"}, ndim : {n},
            offsets : [0 .. n - 1 -> Offsets],
            ysize : [0 .. n - 1 -> 1 .. MaxYsize],
            i : 0 .. MaxFlat] : n \in 1 .. MaxWinNdim}

Init ==
    /\ \/ call \in BoundaryCalls
       \/ call \in CheckModeCalls
       \/ call \in CheckOriginCalls
       \/ call \in CheckAxesCalls
       \/ call \in GetInttypeCalls
       \/ call \in IndicesCalls
    /\ ret = Pending

GenerateBoundaryConditionOps ==
    /\ call.op = "generate_boundary_condition_ops"
    /\ ret = Pending
    /\ \E ub \in UndefinedOutcomes :
           ret' = generate_boundary_condition_ops(call.mode, call.ix,
                                                  call.xsize, ub)
    /\ UNCHANGED call

CheckMode ==
    /\ call.op = "check_mode"
    /\ ret = Pending
    /\ ret' = check_mode(call.mode)
    /\ UNCHANGED call

CheckOrigin ==
    /\ call.op = "check_origin"
    /\ ret = Pending
    /\ ret' = check_origin(call.origin, call.width)
    /\ UNCHANGED call

CheckAxes ==
    /\ call.op = "check_axes"
    /\ ret = Pending
    /\ ret' = check_axes(call.axes, call.ndim)
    /\ UNCHANGED call

GetInttype ==
    /\ call.op = "get_inttype"
    /\ ret = Pending
    /\ ret' = get_inttype(call.input)
    /\ UNCHANGED call

GenerateIndicesOps ==
    /\ call.op = "generate_indices_ops"
    /\ ret = Pending
    /\ ret' = generate_indices_ops(call.ndim, call.offsets, call.ysize, call.i)
    /\ UNCHANGED call

Next ==
    \/ GenerateBoundaryConditionOps
    \/ CheckMode
    \/ CheckOrigin
    \/ CheckAxes
    \/ GetInttype
    \/ GenerateIndicesOps

Spec == Init /\ [][Next]_vars

----------------------------------------------------------------------------
(* Vocabulary of the properties.                                           *)

\* The call has run.
Done(op) == call.op = op /\ ret.status # "pending"

\* The eight boundary modes whose rules the resolver is specified to have.
HandledModes ==
    {"reflect", "grid-mirror", "mirror", "nearest",
     "grid-wrap", "wrap", "constant", "grid-constant"}

\* No division by zero occurs, so the choice of its outcome is not read.
NoUB == [fault |-> FALSE, q |-> 0]

\* resolve(ix, xsize) of a mode, where the emitted rule is defined.
Resolve(mode, ix, xsize) ==
    generate_boundary_condition_ops(mode, ix, xsize, NoUB).val

\* The if/elif chain of _generate_boundary_condition_ops has a branch for mode.
HasRule(mode) ==
    generate_boundary_condition_ops(mode, 0, 2, NoUB).status = "ok"

InRange(v, xsize) == v \in 0 .. xsize - 1

----------------------------------------------------------------------------
(* Properties of the boundary-mode resolver.                               *)

\* C1: for every handled mode, every xsize > 0 (xsize = 1 included) and every
\* raw coordinate ix, the emitted rule ends with ix equal to the sentinel -1
\* or inside [0, xsize).
C1_ResolvedOrSentinel ==
    (Done("generate_boundary_condition_ops") /\ call.mode \in HandledModes)
        => /\ ret.status = "ok"
           /\ (ret.val = -1 \/ InRange(ret.val, call.xsize))

\* C2: _check_mode accepts a tag exactly when the resolver has a rule for it:
\* every accepted tag has a rule and every tag with a rule is accepted.
C2_CheckModeMatchesRules ==
    Done("check_mode") => (ret.status = "ok" <=> HasRule(call.mode))

\* C7: in reflect and grid-mirror mode the rule has period 2*xsize over all
\* integers, and the edge sample is duplicated: resolve(-1, xsize) = 0 and
\* resolve(xsize, xsize) = xsize - 1.
C7_ReflectPeriodicEdgeDuplicated ==
    (Done("generate_boundary_condition_ops")
     /\ call.mode \in {"reflect", "grid-mirror"})
        => /\ ret.status = "ok"
           /\ ret.val = Resolve(call.mode, call.ix + 2 * call.xsize, call.xsize)
           /\ call.ix = -1 => ret.val = 0
           /\ call.ix = call.xsize => ret.val = call.xsize - 1

C7_Witness ==
    /\ Done("generate_boundary_condition_ops")
    /\ call.mode = "reflect" /\ call.ix = -3 /\ call.xsize = 2
    /\ ret = Returned(1)

\* C8: in mirror mode resolve(ix, 1) = 0 for every ix, and for xsize > 1 the
\* rule mirrors about the centre of the outer samples: for k in 0 .. xsize-1,
\* resolve(-k, xsize) = k and resolve(xsize-1+k, xsize) = xsize-1-k; so
\* resolve(-1, 5) = 1, resolve(5, 5) = 3 and resolve(0, xsize) = 0.
C8_MirrorAboutOuterSample ==
    (Done("generate_boundary_condition_ops") /\ call.mode = "mirror")
        => /\ ret.status = "ok"
           /\ call.xsize = 1 => ret.val = 0
           /\ call.xsize > 1 =>
                \A k \in 0 .. call.xsize - 1 :
                    /\ call.ix = -k => ret.val = k
                    /\ call.ix = call.xsize - 1 + k
                           => ret.val = call.xsize - 1 - k
           /\ (call.ix = -1 /\ call.xsize = 5) => ret.val = 1
           /\ (call.ix = 5 /\ call.xsize = 5) => ret.val = 3

C8_Witness ==
    /\ Done("generate_boundary_condition_ops")
    /\ call.mode = "mirror" /\ call.ix = 5 /\ call.xsize = 5
    /\ ret = Returned(3)

\* C9: in wrap mode with xsize > 1 every raw coordinate resolves to a value
\* in [0, xsize-1] congruent to it modulo xsize-1; resolve(-1, 5) = 3 and
\* resolve(5, 5) = 1.
C9_WrapPeriodSizeMinusOne ==
    (Done("generate_boundary_condition_ops")
     /\ call.mode = "wrap" /\ call.xsize > 1)
        => /\ ret.status = "ok"
           /\ InRange(ret.val, call.xsize)
           /\ (ret.val - call.ix) % (call.xsize - 1) = 0
           /\ (call.ix = -1 /\ call.xsize = 5) => ret.val = 3
           /\ (call.ix = 5 /\ call.xsize = 5) => ret.val = 1

C9_Witness ==
    /\ Done("generate_boundary_condition_ops")
    /\ call.mode = "wrap" /\ call.ix = -1 /\ call.xsize = 5
    /\ ret = Returned(3)

\* C10: in every handled mode a raw coordinate already in [0, xsize) is left
\* unchanged (neither folded nor replaced by the sentinel), so the rule
\* applied to its own in-range result changes nothing.
C10_InRangeUnchanged ==
    (Done("generate_boundary_condition_ops") /\ call.mode \in HandledModes)
        => /\ InRange(call.ix, call.xsize) => ret = Returned(call.ix)
           /\ (ret.status = "ok" /\ InRange(ret.val, call.xsize))
                  => Resolve(call.mode, ret.val, call.xsize) = ret.val

C10_Witness ==
    /\ Done("generate_boundary_condition_ops")
    /\ call.mode = "wrap" /\ call.ix = 0 /\ call.xsize = 1
    /\ ret = Returned(0)

----------------------------------------------------------------------------
(* Properties of the parameter checks.                                     *)

\* C3: for every ndim >= 1 and every axes argument, _check_axes raises or
\* returns a tuple of pairwise distinct elements, each in [0, ndim).
C3_AxesCanonicalOrRaise ==
    Done("check_axes")
        => \/ ret.status = "raise"
           \/ /\ ret.status = "ok"
              /\ \A i \in 1 .. Len(ret.val) : ret.val[i] \in 0 .. call.ndim - 1
              /\ \A i, j \in 1 .. Len(ret.val) :
                     i # j => ret.val[i] # ret.val[j]

\* C4 as stated: _check_origin returns the origin exactly when it lies in
\* [-width/2, width/2) (integer division) and raises ValueError otherwise,
\* for odd as well as even widths.
C4_OriginInHalfOpenHalfWidth ==
    Done("check_origin")
        => IF -(call.width \div 2) <= call.origin
              /\ call.origin < call.width \div 2
           THEN ret = Returned(call.origin)
           ELSE ret = Raised("ValueError")

\* C4 amended: _check_origin returns the origin unchanged exactly when
\* 0 <= width/2 + origin < width (integer division), that is when
\* -(width/2) <= origin < width - width/2, and raises ValueError otherwise;
\* for an even width that interval is [-width/2, width/2), for an odd width
\* it is [-(width/2), width/2], its upper end included.
C4_OriginKeepsCentreInWindow ==
    Done("check_origin")
        => /\ IF -(call.width \div 2) <= call.origin
                 /\ call.origin < call.width - call.width \div 2
              THEN ret = Returned(call.origin)
              ELSE ret = Raised("ValueError")
           /\ call.width % 2 = 0 =>
                (ret.status = "ok" <=>
                    /\ -(call.width \div 2) <= call.origin
                    /\ call.origin < call.width \div 2)
           /\ call.width % 2 = 1 =>
                (ret.status = "ok" <=>
                    /\ -(call.width \div 2) <= call.origin
                    /\ call.origin <= call.width \div 2)

C4_Witness ==
    /\ Done("check_origin")
    /\ call.width = 3 /\ call.origin = 1
    /\ ret = Returned(1)

----------------------------------------------------------------------------
(* Properties of the index-width selector and of the decomposer.           *)

\* 2^31 - 1
TwoPow31Minus1 == [hi |-> 2 ^ 15 - 1, lo |-> 2 ^ 16 - 1]

Array(shape, strides, itemsize) ==
    [shape |-> shape, strides |-> strides, itemsize |-> itemsize]

\* C5: with span = sum of (extent_i - 1) * |stride_i| plus the element size,
\* _get_inttype returns 'ptrdiff_t' exactly when span exceeds 2^31 - 1 and
\* 'int' otherwise; a span of exactly 2^31 - 1 is narrow, one of exactly 2^31
\* is wide, and the result is always one of the two.
C5_WideExactlyAbove31Bits ==
    Done("get_inttype")
        => /\ ret.status = "ok"
           /\ ret.val \in {"int", "ptrdiff_t"}
           /\ ret.val = "ptrdiff_t"
                  <=> BigLess(TwoPow31Minus1, nbytes(call.input))
           /\ nbytes(call.input) = TwoPow31Minus1 => ret.val = "int"
           /\ nbytes(call.input) = OneShl31 => ret.val = "ptrdiff_t"
           /\ call.input = Array(<<2 ^ 30>>, <<2>>, 1)
                  => nbytes(call.input) = TwoPow31Minus1 /\ ret.val = "int"
           /\ call.input = Array(<<2 ^ 30>>, <<2>>, 2)
                  => nbytes(call.input) = OneShl31 /\ ret.val = "ptrdiff_t"
           /\ call.input = Array(<<2 ^ 20, 2 ^ 12>>, <<2 ^ 15, 8>>, 8)
                  => ret.val = "ptrdiff_t"
           /\ call.input = Array(<<10, 10>>, <<40, 4>>, 4)
                  => nbytes(call.input) = Big(400) /\ ret.val = "int"

C5_Witness ==
    /\ Done("get_inttype")
    /\ call.input = Array(<<2 ^ 30>>, <<2>>, 2)
    /\ ret = Returned("ptrdiff_t")

\* Row-major flattening of the coordinates c_0 .. c_{n-1}: the sum over j of
\* c_j times the product of ysize_k for k > j (Horner form, axes 0 .. j).
RECURSIVE RowMajor(_, _, _)
RowMajor(c, ysize, j) ==
    IF j = 0 THEN c[0] ELSE RowMajor(c, ysize, j - 1) * ysize[j] + c[j]

\* C6: the emitted decomposition inverts row-major flattening: for i >= 0,
\* 0 <= ind_j + offset_j < ysize_j for every j >= 1, and flattening the
\* ind_j + offset_j gives back i; axis 0 takes the remaining quotient without
\* a modulo; ysize = (3,3), offset = (1,1), i = 4 gives ind_0 = 0, ind_1 = 0.
C6_IndicesInvertRowMajor ==
    Done("generate_indices_ops")
        => LET c == [j \in 0 .. call.ndim - 1 |-> ret.val[j] + call.offsets[j]]
           IN  /\ ret.status = "ok"
               /\ \A j \in 1 .. call.ndim - 1 : c[j] \in 0 .. call.ysize[j] - 1
               /\ RowMajor(c, call.ysize, call.ndim - 1) = call.i
               /\ call.ndim = 1 => ret.val[0] = call.i - call.offsets[0]
               /\ (call.ndim = 2 /\ call.i = 4
                   /\ \A j \in 0 .. 1 : call.ysize[j] = 3 /\ call.offsets[j] = 1)
                      => ret.val[0] = 0 /\ ret.val[1] = 0

C6_Witness ==
    /\ Done("generate_indices_ops")
    /\ call.ndim = 3 /\ call.i = 11
    /\ call.ysize = [j \in 0 .. 2 |-> IF j = 0 THEN 1 ELSE IF j = 1 THEN 2 ELSE 3]
    /\ call.offsets = [j \in 0 .. 2 |-> 0]
    /\ ret.val[0] = 1 /\ ret.val[1] = 1 /\ ret.val[2] = 2

====
